---- MODULE Spec2Model ----
(***************************************************************************)
(* State-machine model of the experiment-tracking wrappers TrainLogger     *)
(* (trainlogger.py) and WandbLogger (weight_and_bias.py), and of the       *)
(* configuration loading of the script visualization.py.                   *)
(*                                                                         *)
(* Python values are records [t, s, items]: t is the Python type, s the    *)
(* text of a scalar, items the children of a container.  The tracking SDK  *)
(* (wandb) is the environment: every call a handler makes into it is       *)
(* recorded in sdk, and the outcomes the SDK decides are nondeterministic. *)
(***************************************************************************)
EXTENDS Naturals, Sequences, FiniteSets, TLC

\* Largest number of entries of a dictionary passed to log() or dump_yaml().
MaxLen == 2

(***************************************************************************)
(* Python values                                                           *)
(***************************************************************************)
Val(t, s, items) == [t |-> t, s |-> s, items |-> items]

PyNone == Val("none", "", <<>>)
PyBool(b) == Val("bool", IF b THEN "True" ELSE "False", <<>>)
PyInt(s) == Val("int", s, <<>>)
PyStr(s) == Val("str", s, <<>>)
PyList(xs) == Val("list", "", xs)
PyTuple(xs) == Val("tuple", "", xs)
Entry(k, v) == Val("entry", "", <<k, v>>)
PyDict(es) == Val("dict", "", es)
\* A torch tensor holding the scalar whose text is s.
Tensor(s) == Val("tensor", s, <<>>)
\* A callable object named s.
Callable(s) == Val("callable", s, <<>>)
\* The plot object built by wandb.plot.<s>(...) or by a custom callable.
PlotObj(s) == Val("plot", s, <<>>)
\* The opaque run handle returned by wandb.init().
RunHandle(s) == Val("run", s, <<>>)

\* isinstance(v, dict)
IsDict(v) == v.t = "dict"

\* Python truthiness, as used by `if self.run`, `if self.log_yaml_path`,
\* `if self.run_id` and `if content`.
Truthy(v) ==
  CASE v.t = "none" -> FALSE
    [] v.t = "bool" -> v.s = "True"
    [] v.t = "int" -> v.s # "0"
    [] v.t = "str" -> v.s # ""
    [] v.t \in {"list", "tuple", "dict"} -> v.items # <<>>
    [] OTHER -> TRUE

Keys(d) == [i \in 1..Len(d.items) |-> d.items[i].items[1]]

HasKey(d, k) == \E i \in 1..Len(d.items) : d.items[i].items[1] = k

\* d[k], for a key d holds.
DictGet(d, k) ==
  LET i == CHOOSE j \in 1..Len(d.items) : d.items[j].items[1] = k
  IN  d.items[i].items[2]

(***************************************************************************)
(* YAML: yaml.safe_dump and yaml.safe_load.  A document is a tree of       *)
(* nodes [t, s, items]: a scalar is "plain" or "quoted" and carries its    *)
(* text, a "seq" carries its items, a "map" its "pair"s.                   *)
(***************************************************************************)
Plain(s) == Val("plain", s, <<>>)
Quoted(s) == Val("quoted", s, <<>>)
RepresenterError == Val("error", "RepresenterError", <<>>)
\* The file does not exist / exists with no document in it.
Absent == Val("absent", "", <<>>)
EmptyFile == Val("empty", "", <<>>)

\* The type YAML's implicit resolver gives a plain scalar with this text.
Resolve(s) ==
  CASE s \in {"", "~", "null", "Null", "NULL"} -> "none"
    [] s \in {"true", "True", "false", "False", "yes", "Yes",
              "no", "No", "on", "On", "off", "Off"} -> "bool"
    [] s \in {"0", "1", "2", "3", "10", "32"} -> "int"
    [] OTHER -> "str"

\* RepresentStr writing every str plain.
RepresentStrPlain(s) == Plain(s)

\* A str is written plain when the plain text would be read back as a str,
\* and quoted otherwise.
RepresentStr(s) == IF Resolve(s) = "str" THEN Plain(s) ELSE Quoted(s)

RECURSIVE Represent(_)
\* SafeRepresenter: None, bool, int, str, list, tuple and dict have
\* representers (a tuple is represented as a list is); any other object
\* raises RepresenterError.
Represent(v) ==
  CASE v.t = "none" -> Plain("null")
    [] v.t = "bool" -> Plain(IF v.s = "True" THEN "true" ELSE "false")
    [] v.t = "int" -> Plain(v.s)
    [] v.t = "str" -> RepresentStr(v.s)
    [] v.t \in {"list", "tuple"} ->
         LET kids == [i \in 1..Len(v.items) |-> Represent(v.items[i])]
         IN  IF \E i \in 1..Len(kids) : kids[i].t = "error"
             THEN RepresenterError
             ELSE Val("seq", "", kids)
    [] v.t = "dict" ->
         LET ks == [i \in 1..Len(v.items) |-> Represent(v.items[i].items[1])]
             vs == [i \in 1..Len(v.items) |-> Represent(v.items[i].items[2])]
         IN  IF \E i \in 1..Len(ks) : ks[i].t = "error" \/ vs[i].t = "error"
             THEN RepresenterError
             ELSE Val("map", "", [i \in 1..Len(ks) |->
                                    Val("pair", "", <<ks[i], vs[i]>>)])
    [] OTHER -> RepresenterError

RECURSIVE Construct(_)
\* SafeConstructor: the Python value of a node.
Construct(n) ==
  CASE n.t = "quoted" -> PyStr(n.s)
    [] n.t = "plain" ->
         (CASE Resolve(n.s) = "none" -> PyNone
            [] Resolve(n.s) = "bool" ->
                 PyBool(n.s \in {"true", "True", "yes", "Yes", "on", "On"})
            [] Resolve(n.s) = "int" -> PyInt(n.s)
            [] OTHER -> PyStr(n.s))
    [] n.t = "seq" ->
         PyList([i \in 1..Len(n.items) |-> Construct(n.items[i])])
    [] n.t = "map" ->
         PyDict([i \in 1..Len(n.items) |->
                   Entry(Construct(n.items[i].items[1]),
                         Construct(n.items[i].items[2]))])
    [] OTHER -> PyNone

\* What the file holds after `with open(path, 'w') as f: yaml.safe_dump(data, f,
\* sort_keys=False)`: open() truncates, the whole tree is represented before
\* anything is emitted, so a RepresenterError leaves the file empty.
SafeDump(data) ==
  LET node == Represent(data)
  IN  IF node.t = "error" THEN EmptyFile ELSE node

\* A file whose text neither YAML nor JSON can parse.
Garbage == Val("garbage", "", <<>>)
LoadError(s) == Val("error", s, <<>>)

\* yaml.safe_load of an existing file (None for a file with no document, a
\* YAMLError for text the parser rejects).
SafeLoad(file) == IF file = Garbage THEN LoadError("YAMLError") ELSE Construct(file)

RECURSIVE JsonConstruct(_)
\* json.load of the same text, written in flow style: strings are quoted,
\* the literals are null, true, false and numbers, object keys are strings,
\* and anything else (an empty file too) is a JSONDecodeError.
JsonConstruct(n) ==
  CASE n.t = "quoted" -> PyStr(n.s)
    [] n.t = "plain" ->
         (CASE n.s = "null" -> PyNone
            [] n.s \in {"true", "false"} -> PyBool(n.s = "true")
            [] Resolve(n.s) = "int" -> PyInt(n.s)
            [] OTHER -> LoadError("JSONDecodeError"))
    [] n.t = "seq" ->
         LET kids == [i \in 1..Len(n.items) |-> JsonConstruct(n.items[i])]
         IN  IF \E i \in 1..Len(kids) : kids[i].t = "error"
             THEN LoadError("JSONDecodeError")
             ELSE PyList(kids)
    [] n.t = "map" ->
         LET vs == [i \in 1..Len(n.items) |-> JsonConstruct(n.items[i].items[2])]
         IN  IF \E i \in 1..Len(vs) :
                  n.items[i].items[1].t # "quoted" \/ vs[i].t = "error"
             THEN LoadError("JSONDecodeError")
             ELSE PyDict([i \in 1..Len(vs) |->
                            Entry(PyStr(n.items[i].items[1].s), vs[i])])
    [] OTHER -> LoadError("JSONDecodeError")

JsonLoad(file) == JsonConstruct(file)

(***************************************************************************)
(* State                                                                   *)
(***************************************************************************)
VARIABLES
  tl,        \* the TrainLogger instance: its attributes, alive once constructed
  wl,        \* the WandbLogger instance: its run attribute
  yamlFile,  \* the content of the file at log_yaml_path
  sdk,       \* the calls into the tracking SDK (for the script: into the
             \* model and rendering libraries) made by the latest handler
  last       \* the latest handler: object, method, argument, outcome, and
             \* the run handle its object held when it was called (for the
             \* script also the file text read and the value returned)

vars == <<tl, wl, yamlFile, sdk, last>>

\* A call into the SDK: the function, its argument, and what it answered.
Call(fn, arg, ret) == [fn |-> fn, arg |-> arg, ret |-> ret]

Done(obj, op, arg, outcome, held) ==
  [obj |-> obj, op |-> op, arg |-> arg, outcome |-> outcome, held |-> held]

\* The attributes of a TrainLogger built from the arguments a (lines 45-58).
Logger(a, sweep_config) ==
  [alive |-> TRUE, use_wandb |-> a.use_wandb, project_name |-> a.project_name,
   run_id |-> a.run_id, config |-> a.config, log_yaml_path |-> a.log_yaml_path,
   sweep_config |-> sweep_config, sweep_id |-> a.sweep_id, run |-> PyNone]

NoLogger ==
  [alive |-> FALSE, use_wandb |-> FALSE, project_name |-> PyNone,
   run_id |-> PyNone, config |-> PyNone, log_yaml_path |-> PyNone,
   sweep_config |-> PyNone, sweep_id |-> PyNone, run |-> PyNone]

(***************************************************************************)
(* Inputs                                                                  *)
(***************************************************************************)
ProjectNames == {PyNone, PyStr("proj")}
RunIds == {PyNone, PyStr("run7")}
SweepIds == {PyNone, PyStr("sw1")}
\* None, the empty string (Path("") is the current directory) and a file path.
LogYamlPaths == {PyNone, PyStr(""), PyStr("cfg.yaml")}
\* Hyperparameter mappings of YAML-native values.
Configs ==
  {PyNone, PyDict(<<>>),
   PyDict(<<Entry(PyStr("lr"), PyInt("1")), Entry(PyStr("opt"), PyStr("adam"))>>)}
GridSweep == PyDict(<<Entry(PyStr("method"), PyStr("grid"))>>)
\* Paths for which Path(p).exists() holds.
ExistingFiles == {"sweep.yaml"}
\* None, a dict, the path of an existing file, a path of no file, and a value
\* that is neither a dict nor a str.
SweepConfigs ==
  {PyNone, GridSweep, PyStr("sweep.yaml"), PyStr("missing.yaml"), PyInt("1")}
\* What wandb.Api().sweep(path).config gives: an exception, or a mapping.
FetchError == Val("error", "CommError", <<>>)
FetchOutcomes ==
  {FetchError, PyDict(<<>>), PyDict(<<Entry(PyStr("method"), PyStr("bayes"))>>)}
\* What the file at log_yaml_path may hold before the program runs.
OldFiles == {Absent, Represent(PyDict(<<Entry(PyStr("old"), PyInt("0"))>>))}

Init ==
  /\ tl = NoLogger
  /\ wl = [run |-> PyNone]
  /\ yamlFile \in OldFiles
  /\ sdk = <<>>
  /\ last = Done("", "", PyNone, "", PyNone)

(***************************************************************************)
(* TrainLogger.__init__                                                    *)
(***************************************************************************)
\* The arguments of a constructor call.
InitArgs ==
  [use_wandb : BOOLEAN, project_name : ProjectNames, run_id : RunIds,
   config : Configs, log_yaml_path : LogYamlPaths,
   sweep_config : SweepConfigs, sweep_id : SweepIds]

\* InitRejects with the project_name check left out.
InitRejectsNever(a) == FALSE

\* Line 43.
InitRejects(a) == a.use_wandb /\ a.project_name = PyNone

\* Lines 61, 65, 68: the constructor asks the SDK for the sweep's configuration.
InitFetches(a) ==
  Truthy(a.log_yaml_path) /\ a.sweep_config = PyNone /\ a.sweep_id # PyNone

\* InitSweepConfig with the except branch storing an empty configuration.
InitSweepConfigDefault(a, fetched) ==
  IF InitFetches(a)
  THEN IF fetched.t = "error" THEN PyDict(<<>>) ELSE fetched
  ELSE a.sweep_config

\* self.sweep_config at the end of the constructor (lines 53, 75).
InitSweepConfig(a, fetched) ==
  IF InitFetches(a) /\ fetched.t # "error" THEN fetched ELSE a.sweep_config

\* The mapping `content` at line 81.
InitContent(config, sweep_config) ==
  PyDict((IF config # PyNone
          THEN <<Entry(PyStr("config"), config)>> ELSE <<>>)
         \o (IF sweep_config # PyNone
             THEN <<Entry(PyStr("sweep_config"), sweep_config)>> ELSE <<>>))

\* InitWrites without `if content`.
InitWritesAlways(a, content) == Truthy(a.log_yaml_path)

\* Line 81 under line 61: the constructor opens and writes the file.
InitWrites(a, content) == Truthy(a.log_yaml_path) /\ Truthy(content)

\* The constructor is the program's first call; when it raises there is no
\* object to call anything on.
TL_init(a, fetched) ==
  LET sc == InitSweepConfig(a, fetched)
      content == InitContent(a.config, sc)
      writes == InitWrites(a, content)
      dumped == SafeDump(content)
      calls == IF InitFetches(a)
               THEN <<Call("Api.sweep", a.sweep_id, fetched)>>
               ELSE <<>>
  IN
  /\ last.op = ""
  /\ IF InitRejects(a)
     THEN /\ last' = Done("TrainLogger", "__init__", a, "ValueError", PyNone)
          /\ sdk' = <<>>
          /\ UNCHANGED <<tl, yamlFile>>
     ELSE IF writes /\ dumped = EmptyFile
     THEN /\ last' = Done("TrainLogger", "__init__", a, "RepresenterError", PyNone)
          /\ sdk' = calls
          /\ yamlFile' = dumped
          /\ UNCHANGED tl
     ELSE /\ last' = Done("TrainLogger", "__init__", a, "ok", PyNone)
          /\ sdk' = calls
          /\ yamlFile' = IF writes THEN dumped ELSE yamlFile
          /\ tl' = Logger(a, sc)
  /\ UNCHANGED wl

(***************************************************************************)
(* TrainLogger.start                                                       *)
(***************************************************************************)
\* StartNeedsSweep without `self.sweep_id is None`.
StartNeedsSweepAlways(self) == self.sweep_config # PyNone

\* Line 116: start() goes on to the sweep.
StartNeedsSweep(self) == self.sweep_id = PyNone /\ self.sweep_config # PyNone

\* Line 117: the sweep is created by wandb.sweep().
StartSweepsByApi(self) == StartNeedsSweep(self) /\ IsDict(self.sweep_config)

\* Line 123: the sweep is created by the `wandb sweep <file>` command.
StartSweepsByCli(self) ==
  /\ StartNeedsSweep(self)
  /\ ~IsDict(self.sweep_config)
  /\ self.sweep_config.t = "str"
  /\ self.sweep_config.s \in ExistingFiles

\* Lines 91-113: the run handle after the first half of start().  A resumed
\* run carries the run_id it was asked for.
StartRun(self) ==
  IF self.use_wandb
  THEN IF Truthy(self.run_id) THEN RunHandle(self.run_id.s) ELSE RunHandle("new")
  ELSE self.run

\* created: what the SDK answers when asked to create a sweep, an identifier or
\* a failure (wandb.sweep raising, the command failing or printing nothing).
TL_start(created) ==
  LET self == tl
      run == StartRun(self)
      initCalls == IF self.use_wandb THEN <<Call("init", self.run_id, run)>> ELSE <<>>
  IN
  /\ tl.alive
  /\ IF StartSweepsByApi(self) \/ StartSweepsByCli(self)
     THEN /\ sdk' = initCalls \o
                    <<Call(IF StartSweepsByApi(self) THEN "sweep" ELSE "cli.sweep",
                           self.sweep_config, created)>>
          /\ IF created.t = "error"
             THEN /\ tl' = [tl EXCEPT !.run = run]
                  /\ last' = Done("TrainLogger", "start", created, "SdkError", self.run)
             ELSE /\ tl' = [tl EXCEPT !.run = run, !.sweep_id = created]
                  /\ last' = Done("TrainLogger", "start", created, "ok", self.run)
     ELSE IF StartNeedsSweep(self)
     THEN /\ sdk' = initCalls
          /\ tl' = [tl EXCEPT !.run = run]
          /\ last' = Done("TrainLogger", "start", PyNone, "ValueError", self.run)
     ELSE /\ sdk' = initCalls
          /\ tl' = [tl EXCEPT !.run = run]
          /\ last' = Done("TrainLogger", "start", PyNone, "ok", self.run)
  /\ UNCHANGED <<wl, yamlFile>>

(***************************************************************************)
(* TrainLogger.log                                                         *)
(***************************************************************************)
\* LogForwards with wandb.log called unguarded.
LogForwardsAlways(self) == TRUE

\* Line 139: the guard of the call to wandb.log.
LogForwards(self) == self.use_wandb /\ Truthy(self.run)

\* LogAccepts without the isinstance check.
LogAcceptsAll(data) == TRUE

\* Line 136.
LogAccepts(data) == IsDict(data)

TL_log(data) ==
  /\ tl.alive
  /\ IF ~LogAccepts(data)
     THEN /\ sdk' = <<>>
          /\ last' = Done("TrainLogger", "log", data, "ValueError", tl.run)
     ELSE /\ sdk' = IF LogForwards(tl) THEN <<Call("log", data, PyNone)>> ELSE <<>>
          /\ last' = Done("TrainLogger", "log", data, "ok", tl.run)
  /\ UNCHANGED <<tl, wl, yamlFile>>

(***************************************************************************)
(* TrainLogger.plot                                                        *)
(***************************************************************************)
\* The functions of the SDK's wandb.plot module.
PlotFunctions == {"heatmap", "line"}

\* Lines 175-177: name.strip(), then the "wandb.plot." prefix removed.
PlotName(s) ==
  CASE s = " heatmap " -> "heatmap"
    [] s = "wandb.plot.heatmap" -> "heatmap"
    [] s = "wandb.plot.nope" -> "nope"
    [] OTHER -> s

\* Line 201: the guard of the call to wandb.log.
PlotForwards(self, log) == log /\ self.use_wandb /\ Truthy(self.run)

TL_plot(plot_fn_or_name, key, log) ==
  LET isName == plot_fn_or_name.t = "str"
      isCallable == plot_fn_or_name.t = "callable"
      name == IF isName THEN PlotName(plot_fn_or_name.s) ELSE plot_fn_or_name.s
      plot_obj == PlotObj(name)
      k == IF key = PyNone THEN PyStr("plot/" \o name) ELSE key
      arg == PyList(<<plot_fn_or_name, key, PyBool(log)>>)
  IN
  /\ tl.alive
  /\ IF isName /\ name \notin PlotFunctions
     THEN /\ sdk' = <<>>
          /\ last' = Done("TrainLogger", "plot", arg, "ValueError", tl.run)
     ELSE IF ~isName /\ ~isCallable
     THEN /\ sdk' = <<>>
          /\ last' = Done("TrainLogger", "plot", arg, "TypeError", tl.run)
     ELSE /\ sdk' = <<Call("plot", plot_fn_or_name, plot_obj)>> \o
                    (IF PlotForwards(tl, log)
                     THEN <<Call("log", PyDict(<<Entry(k, plot_obj)>>), PyNone)>>
                     ELSE <<>>)
          /\ last' = Done("TrainLogger", "plot", arg, "ok", tl.run)
  /\ UNCHANGED <<tl, wl, yamlFile>>

(***************************************************************************)
(* TrainLogger.finish                                                      *)
(***************************************************************************)
\* Line 210.
FinishEnds(self) == self.use_wandb /\ Truthy(self.run)

\* FinishRun without `self.run = None`.
FinishKeepsRun(self) == self.run

\* Line 212.
FinishRun(self) == PyNone

TL_finish ==
  /\ tl.alive
  /\ IF FinishEnds(tl)
     THEN /\ sdk' = <<Call("finish", PyNone, PyNone)>>
          /\ tl' = [tl EXCEPT !.run = FinishRun(tl)]
     ELSE /\ sdk' = <<>>
          /\ UNCHANGED tl
  /\ last' = Done("TrainLogger", "finish", PyNone, "ok", tl.run)
  /\ UNCHANGED <<wl, yamlFile>>

(***************************************************************************)
(* TrainLogger.agent, TrainLogger.controller                               *)
(***************************************************************************)
\* SweepRefusal without the `self.sweep_id is None` check.
SweepRefusalNoIdCheck(self) ==
  IF ~self.use_wandb THEN "RuntimeError: W&B is disabled" ELSE "ok"

\* Lines 218-221 and 232-235: the error raised instead of calling the SDK.
SweepRefusal(self) ==
  IF ~self.use_wandb THEN "RuntimeError: W&B is disabled"
  ELSE IF self.sweep_id = PyNone THEN "RuntimeError: sweep_id not found"
  ELSE "ok"

TL_agent ==
  /\ tl.alive
  /\ sdk' = IF SweepRefusal(tl) = "ok" THEN <<Call("agent", tl.sweep_id, PyNone)>> ELSE <<>>
  /\ last' = Done("TrainLogger", "agent", PyNone, SweepRefusal(tl), tl.run)
  /\ UNCHANGED <<tl, wl, yamlFile>>

TL_controller ==
  /\ tl.alive
  /\ sdk' = IF SweepRefusal(tl) = "ok"
            THEN <<Call("controller", tl.sweep_id, PyNone)>> ELSE <<>>
  /\ last' = Done("TrainLogger", "controller", PyNone, SweepRefusal(tl), tl.run)
  /\ UNCHANGED <<tl, wl, yamlFile>>

(***************************************************************************)
(* TrainLogger.dump_yaml                                                   *)
(***************************************************************************)
\* Lines 252-254: what opening Path(self.log_yaml_path) for writing raises.
\* Path(None) is a TypeError and Path("") is the current directory.
DumpOpenError(self) ==
  IF self.log_yaml_path = PyNone THEN "TypeError"
  ELSE IF self.log_yaml_path.s = "" THEN "IsADirectoryError"
  ELSE "ok"

TL_dump_yaml(data) ==
  /\ tl.alive
  /\ IF ~IsDict(data)
     THEN /\ last' = Done("TrainLogger", "dump_yaml", data, "ValueError", tl.run)
          /\ UNCHANGED yamlFile
     ELSE IF DumpOpenError(tl) # "ok"
     THEN /\ last' = Done("TrainLogger", "dump_yaml", data, DumpOpenError(tl), tl.run)
          /\ UNCHANGED yamlFile
     ELSE /\ yamlFile' = SafeDump(data)
          /\ last' = Done("TrainLogger", "dump_yaml", data,
                          IF Represent(data).t = "error"
                          THEN "RepresenterError" ELSE "ok", tl.run)
  /\ sdk' = <<>>
  /\ UNCHANGED <<tl, wl>>

(***************************************************************************)
(* WandbLogger                                                             *)
(***************************************************************************)
WL_start ==
  /\ wl' = [wl EXCEPT !.run = RunHandle("new")]
  /\ sdk' = <<Call("init", PyNone, RunHandle("new"))>>
  /\ last' = Done("WandbLogger", "start", PyNone, "ok", wl.run)
  /\ UNCHANGED <<tl, yamlFile>>

\* Lines 44-50.
WLogOutcome(self, data) ==
  IF Truthy(self.run)
  THEN IF IsDict(data) THEN "ok" ELSE "ValueError"
  ELSE "RuntimeError"

WL_log(data) ==
  /\ sdk' = IF WLogOutcome(wl, data) = "ok" THEN <<Call("log", data, PyNone)>> ELSE <<>>
  /\ last' = Done("WandbLogger", "log", data, WLogOutcome(wl, data), wl.run)
  /\ UNCHANGED <<tl, wl, yamlFile>>

WL_finish ==
  /\ IF Truthy(wl.run)
     THEN /\ sdk' = <<Call("finish", PyNone, PyNone)>>
          /\ wl' = [wl EXCEPT !.run = PyNone]
     ELSE /\ sdk' = <<>>
          /\ UNCHANGED wl
  /\ last' = Done("WandbLogger", "finish", PyNone, "ok", wl.run)
  /\ UNCHANGED <<tl, yamlFile>>

(***************************************************************************)
(* Arguments of the calls                                                  *)
(***************************************************************************)
\* The dictionaries of at most n entries with distinct keys from K and values
\* from V, in every key order.
DictsOf(K, V, n) ==
  { PyDict(es) : es \in
      { f \in UNION { [1..m -> {Entry(PyStr(k), v) : k \in K, v \in V}] : m \in 0..n } :
          \A i, j \in 1..Len(f) : i # j => f[i].items[1] # f[j].items[1] } }

\* Metrics: plain numbers and tensors.
LogDicts == DictsOf({"loss", "acc", "step"}, {PyInt("1"), Tensor("2")}, MaxLen)
NonDicts == {PyNone, PyList(<<PyInt("1")>>)}
LogData == LogDicts \cup NonDicts

PlotFns ==
  {PyStr("heatmap"), PyStr(" heatmap "), PyStr("wandb.plot.heatmap"),
   PyStr("nope"), Callable("custom"), PyInt("1")}
PlotKeys == {PyNone, PyStr("k")}

SweepAnswers == {Val("error", "SdkError", <<>>), PyStr("sw2")}

\* Values YAML has a type for, a tuple, a str that reads like another type,
\* and an object the safe dumper has no representer for.
YamlValues ==
  {PyInt("1"), PyStr("adam"), PyStr("1"), PyNone, PyBool(TRUE),
   PyList(<<PyInt("1"), PyInt("2")>>), PyTuple(<<PyInt("1"), PyInt("2")>>),
   Tensor("2")}
DumpData == DictsOf({"lr", "shape"}, YamlValues, MaxLen) \cup NonDicts

(***************************************************************************)
(* visualization.py: the script that builds a model and renders its graph. *)
(* It is a program of its own; what it reads from the file system (which   *)
(* paths are files, and the text of the file it opens) is its environment. *)
(***************************************************************************)
\* The characters of the paths used as arguments.
Chars(s) ==
  CASE s = "cfg.yaml" -> <<"c", "f", "g", ".", "y", "a", "m", "l">>
    [] s = "cfg.YML" -> <<"c", "f", "g", ".", "Y", "M", "L">>
    [] s = "cfg.Json" -> <<"c", "f", "g", ".", "J", "s", "o", "n">>
    [] s = "cfg.txt" -> <<"c", "f", "g", ".", "t", "x", "t">>
    [] s = "cfg" -> <<"c", "f", "g">>
    [] s = ".yaml" -> <<".", "y", "a", "m", "l">>
    [] s = "v.1/cfg" -> <<"v", ".", "1", "/", "c", "f", "g">>
    [] s = "missing.yaml" ->
         <<"m", "i", "s", "s", "i", "n", "g", ".", "y", "a", "m", "l">>
    [] OTHER -> <<>>

\* Paths for which os.path.isfile() holds.
ConfigFiles ==
  {"cfg.yaml", "cfg.YML", "cfg.Json", "cfg.txt", "cfg", ".yaml", "v.1/cfg"}

UpperCase == <<"J", "L", "M", "S", "N", "O", "Y", "A", "T", "X">>
LowerCase == <<"j", "l", "m", "s", "n", "o", "y", "a", "t", "x">>

\* Lower leaving the case as it is.
LowerNot(cs) == cs

\* str.lower(), character by character.
Lower(cs) ==
  [i \in 1..Len(cs) |->
     IF \E j \in 1..Len(UpperCase) : UpperCase[j] = cs[i]
     THEN LowerCase[CHOOSE j \in 1..Len(UpperCase) : UpperCase[j] = cs[i]]
     ELSE cs[i]]

\* The last index of character c in p, 0 when there is none (str.rfind).
RFind(p, c) ==
  IF \E i \in 1..Len(p) : p[i] = c
  THEN CHOOSE i \in 1..Len(p) : p[i] = c /\ \A j \in (i + 1)..Len(p) : p[j] # c
  ELSE 0

\* os.path.splitext(p)[1]: from the last dot on, when that dot comes after
\* the last separator and after a character of the file name that is no dot.
SplitExt(p) ==
  LET sepIndex == RFind(p, "/")
      dotIndex == RFind(p, ".")
  IN  IF /\ dotIndex > sepIndex
         /\ \E i \in (sepIndex + 1)..(dotIndex - 1) : p[i] # "."
      THEN SubSeq(p, dotIndex, Len(p))
      ELSE <<>>

\* Line 41.
IsConfigFile(config_value) ==
  config_value.t = "str" /\ config_value.s \in ConfigFiles

\* Line 42.
ConfigExt(config_value) == Lower(SplitExt(Chars(config_value.s)))

ExtYml == <<".", "y", "m", "l">>
ExtYaml == <<".", "y", "a", "m", "l">>
ExtJson == <<".", "j", "s", "o", "n">>

\* Lines 43-46: the call opens the file and hands it to a parser.
ConfigOpens(config_value) ==
  /\ IsConfigFile(config_value)
  /\ ConfigExt(config_value) \in {ExtYml, ExtYaml, ExtJson}

\* load_config_file_if_needed(config_value), where text is what the file at
\* config_value holds: the value returned, or the exception raised.
LoadConfigFileIfNeeded(config_value, text) ==
  IF IsConfigFile(config_value)
  THEN IF ConfigExt(config_value) \in {ExtYml, ExtYaml} THEN SafeLoad(text)
       ELSE IF ConfigExt(config_value) = ExtJson THEN JsonLoad(text)
       ELSE LoadError("ValueError")
  ELSE config_value

RECURSIVE DictToObj(_)
\* DictToObj(d): an object with one attribute per entry, the values that are
\* dicts converted in turn.  setattr raises TypeError for a key that is no
\* str.
DictToObj(d) ==
  LET kids == [i \in 1..Len(d.items) |->
                 IF IsDict(d.items[i].items[2])
                 THEN DictToObj(d.items[i].items[2])
                 ELSE d.items[i].items[2]]
  IN  IF \E i \in 1..Len(kids) :
           kids[i].t = "error" \/ d.items[i].items[1].t # "str"
      THEN LoadError("TypeError")
      ELSE Val("obj", "", [i \in 1..Len(kids) |->
                             Entry(d.items[i].items[1], kids[i])])

\* d after d[k] = v, for a key d holds.
DictSet(d, k, v) ==
  PyDict([i \in 1..Len(d.items) |->
            IF d.items[i].items[1] = k THEN Entry(k, v) ELSE d.items[i]])

\* No file was opened.
Unread == Val("unread", "", <<>>)

\* A call of the script: Done, with the text of the file the call read and
\* the value the call returned.
Ran(op, arg, file, outcome, ret) ==
  [obj |-> "visualization", op |-> op, arg |-> arg, outcome |-> outcome,
   held |-> PyNone, file |-> file, ret |-> ret]

\* raw_dict after lines 57-62, or the exception raised on the way.
MainRawDict(argv, text) ==
  IF ~HasKey(argv.raw_dict, PyStr("config")) THEN argv.raw_dict
  ELSE LET loaded_config ==
             LoadConfigFileIfNeeded(DictGet(argv.raw_dict, PyStr("config")), text)
       IN  IF loaded_config.t = "error" THEN loaded_config
           ELSE IF argv.obj /\ IsDict(loaded_config)
           THEN IF DictToObj(loaded_config).t = "error"
                THEN DictToObj(loaded_config)
                ELSE DictSet(argv.raw_dict, PyStr("config"), DictToObj(loaded_config))
           ELSE DictSet(argv.raw_dict, PyStr("config"), loaded_config)

\* A call of load_config_file_if_needed.
Viz_load(config_value, text) ==
  LET out == LoadConfigFileIfNeeded(config_value, text)
  IN
  /\ last' = Ran("load_config_file_if_needed", config_value,
                 IF ConfigOpens(config_value) THEN text ELSE Unread,
                 IF out.t = "error" THEN out.s ELSE "ok",
                 IF out.t = "error" THEN PyNone ELSE out)
  /\ sdk' = <<>>
  /\ UNCHANGED <<tl, wl, yamlFile>>

\* A run of the script: the model is built from raw_dict (line 68), then
\* summarised and rendered by the libraries (lines 69-87).
Viz_main(argv, text) ==
  LET out == MainRawDict(argv, text)
      opens == /\ HasKey(argv.raw_dict, PyStr("config"))
               /\ ConfigOpens(DictGet(argv.raw_dict, PyStr("config")))
  IN
  /\ last' = Ran("main", argv, IF opens THEN text ELSE Unread,
                 IF out.t = "error" THEN out.s ELSE "ok", PyNone)
  /\ sdk' = IF out.t = "error"
            THEN <<>>
            ELSE <<Call("model_class", out, PyNone),
                   Call("render", PyStr("model_graph"), PyNone)>>
  /\ UNCHANGED <<tl, wl, yamlFile>>

\* Values of the "config" constructor argument: no str, a str naming no
\* file, and the files.
ConfigValues ==
  {PyNone, PyInt("1"), PyList(<<PyInt("1")>>),
   PyDict(<<Entry(PyStr("dim"), PyInt("32"))>>),
   PyDict(<<Entry(PyStr("net"), PyDict(<<Entry(PyStr("dim"), PyInt("32"))>>))>>),
   PyStr(""), PyStr("missing.yaml")}
  \cup {PyStr(f) : f \in ConfigFiles}

\* Texts a configuration file may hold: nothing, text no parser accepts,
\* {"lr": 1}, {"opt": {"name": "adam"}}, {1: "a"}, [1, 2], "adam" and yes.
ConfigTexts ==
  {EmptyFile, Garbage,
   Val("map", "", <<Val("pair", "", <<Quoted("lr"), Plain("1")>>)>>),
   Val("map", "", <<Val("pair", "",
      <<Quoted("opt"),
        Val("map", "", <<Val("pair", "", <<Quoted("name"), Quoted("adam")>>)>>)>>)>>),
   Val("map", "", <<Val("pair", "", <<Plain("1"), Quoted("a")>>)>>),
   Val("seq", "", <<Plain("1"), Plain("2")>>),
   Quoted("adam"), Plain("yes")}

\* --model-init-args after ast.literal_eval: with and without "config".
RawDicts ==
  {PyDict(<<>>), PyDict(<<Entry(PyStr("dim_rhy"), PyInt("10"))>>)}
  \cup {PyDict(<<Entry(PyStr("config"), v)>>) : v \in ConfigValues}
  \cup {PyDict(<<Entry(PyStr("dim_rhy"), PyInt("10")), Entry(PyStr("config"), v)>>) :
          v \in ConfigValues}

\* The flags of a run that the configuration depends on.
MainArgs == [obj : BOOLEAN, raw_dict : RawDicts]

(***************************************************************************)
(* Specifications                                                          *)
(***************************************************************************)
\* A program using the wrappers: every handler of both, on every input.  The
\* visualization script is a program of its own, SpecViz below.
Next ==
  \/ \E a \in InitArgs, fetched \in FetchOutcomes : TL_init(a, fetched)
  \/ \E created \in SweepAnswers : TL_start(created)
  \/ \E data \in LogData : TL_log(data)
  \/ \E f \in PlotFns, key \in PlotKeys, log \in BOOLEAN : TL_plot(f, key, log)
  \/ TL_finish
  \/ TL_agent
  \/ TL_controller
  \/ \E data \in DumpData : TL_dump_yaml(data)
  \/ WL_start
  \/ \E data \in LogData : WL_log(data)
  \/ WL_finish

Spec == Init /\ [][Next]_vars

\* Spec is explored through three restrictions of it, each keeping the
\* handlers one concern involves and the constructor arguments they read, so
\* every behaviour of a restriction is a behaviour of Spec.

\* The constructor alone, on every combination of its arguments.
NextInit ==
  \/ \E a \in InitArgs, fetched \in FetchOutcomes : TL_init(a, fetched)

SpecInit == Init /\ [][NextInit]_vars

\* The calls that write the YAML file: the constructor and dump_yaml.
\* dump_yaml reads log_yaml_path only.
YamlInitArgs ==
  {a \in InitArgs : /\ ~a.use_wandb
                    /\ a.project_name = PyNone
                    /\ a.run_id = PyNone
                    /\ a.sweep_id = PyNone
                    /\ a.sweep_config \in {PyNone, GridSweep}}

NextYaml ==
  \/ \E a \in YamlInitArgs, fetched \in FetchOutcomes : TL_init(a, fetched)
  \/ \E data \in DumpData : TL_dump_yaml(data)

SpecYaml == Init /\ [][NextYaml]_vars

\* The run and sweep lifecycle of both wrappers, with no file at
\* log_yaml_path beforehand.  The lifecycle handlers read use_wandb, run_id,
\* sweep_config and sweep_id; log_yaml_path decides whether the constructor
\* fetches the sweep's configuration.
RunInitArgs ==
  {a \in InitArgs : a.config = PyNone /\ a.log_yaml_path # PyStr("")}

InitRun == Init /\ yamlFile = Absent

NextRun ==
  \/ \E a \in RunInitArgs, fetched \in FetchOutcomes : TL_init(a, fetched)
  \/ \E created \in SweepAnswers : TL_start(created)
  \/ \E data \in LogData : TL_log(data)
  \/ \E f \in PlotFns, key \in PlotKeys, log \in BOOLEAN : TL_plot(f, key, log)
  \/ TL_finish
  \/ TL_agent
  \/ TL_controller
  \/ WL_start
  \/ \E data \in LogData : WL_log(data)
  \/ WL_finish

SpecRun == InitRun /\ [][NextRun]_vars

\* The visualization script, run on every argument and file text.
NextViz ==
  \/ \E v \in ConfigValues, text \in ConfigTexts : Viz_load(v, text)
  \/ \E argv \in MainArgs, text \in ConfigTexts : Viz_main(argv, text)

SpecViz == Init /\ [][NextViz]_vars

(***************************************************************************)
(* Properties                                                              *)
(***************************************************************************)
HasTensor(d) == \E i \in 1..Len(d.items) : d.items[i].items[2].t = "tensor"

RECURSIVE TuplesAsLists(_)
\* v with every tuple in it replaced by the list of its items.
TuplesAsLists(v) ==
  IF v.t \in {"list", "tuple", "dict", "entry"}
  THEN Val(IF v.t = "tuple" THEN "list" ELSE v.t, v.s,
           [i \in 1..Len(v.items) |-> TuplesAsLists(v.items[i])])
  ELSE v

C1_Step ==
  last'.op = "__init__" =>
    /\ (last'.arg.use_wandb /\ last'.arg.project_name = PyNone) =>
         /\ last'.outcome = "ValueError"
         /\ sdk' = <<>>
         /\ yamlFile' = yamlFile
         /\ ~tl'.alive
    /\ (~last'.arg.use_wandb /\ last'.arg.project_name = PyNone) =>
         /\ last'.outcome = "ok"
         /\ tl'.alive
         /\ tl'.project_name = PyNone

\* C1: a constructor call with use_wandb=True and project_name=None raises
\* ValueError having written no YAML file and made no SDK call, whatever the
\* other arguments are, and builds no object; with use_wandb=False a
\* project_name of None is accepted.
C1_MissingProjectNameRaises == [][C1_Step]_vars

\* C1: the rejected call had a log_yaml_path and a config to write.
C1_Witness ==
  /\ last.op = "__init__"
  /\ last.outcome = "ValueError"
  /\ last.arg.log_yaml_path = PyStr("cfg.yaml")
  /\ last.arg.config # PyNone
  /\ last.arg.sweep_id # PyNone
  /\ sdk = <<>>
  /\ yamlFile = Absent

C2_Step ==
  (last'.op = "log" /\ ~IsDict(last'.arg)) =>
    /\ last'.outcome \in {"ValueError", "RuntimeError"}
    /\ sdk' = <<>>
    /\ tl' = tl
    /\ wl' = wl

\* C2: log(data) with data that is not a dictionary raises an error, makes no
\* SDK call and leaves the wrapper (its run handle included) as it was, in
\* TrainLogger and in WandbLogger, whatever state the wrapper is in.
C2_NonDictLogRaises == [][C2_Step]_vars

\* C2: a TrainLogger holding a run handle refused a non-dictionary.
C2_Witness ==
  /\ last.obj = "TrainLogger"
  /\ last.op = "log"
  /\ ~IsDict(last.arg)
  /\ last.outcome = "ValueError"
  /\ Truthy(tl.run)
  /\ sdk = <<>>

\* C3: the dictionary log() forwards to the SDK holds no tensor and has the
\* keys of data.
C3_ForwardedHoldsNoTensor ==
  last.op = "log" =>
    \A i \in 1..Len(sdk) :
      sdk[i].fn = "log" =>
        /\ ~HasTensor(sdk[i].arg)
        /\ Keys(sdk[i].arg) = Keys(last.arg)

C4_Step ==
  last'.op = "dump_yaml" =>
    /\ last'.outcome = "ok" => SafeLoad(yamlFile') = TuplesAsLists(last'.arg)
    /\ ~IsDict(last'.arg) => (last'.outcome = "ValueError" /\ yamlFile' = yamlFile)

C5_Step ==
  /\ (\E i \in 1..Len(sdk') : sdk'[i].fn = "log") =>
       /\ last'.op \in {"log", "plot"}
       /\ last'.obj = "TrainLogger" => (Truthy(tl.run) /\ tl'.run = tl.run)
       /\ last'.obj = "WandbLogger" => (Truthy(wl.run) /\ wl'.run = wl.run)
  /\ (~Truthy(tl.run) /\ Truthy(tl'.run)) =>
       (last'.obj = "TrainLogger" /\ last'.op = "start")
  /\ (~Truthy(wl.run) /\ Truthy(wl'.run)) =>
       (last'.obj = "WandbLogger" /\ last'.op = "start")
  /\ (last'.obj = "TrainLogger" /\ last'.op = "finish") => ~Truthy(tl'.run)
  /\ (last'.obj = "WandbLogger" /\ last'.op = "finish") => ~Truthy(wl'.run)

\* C5: the SDK's log function is called only by a log() or plot() of a wrapper
\* that holds a run handle; a wrapper comes to hold a handle only by start()
\* and holds none after finish().
C5_LogOnlyWithRunHandle == [][C5_Step]_vars

\* C5: plot() of a TrainLogger holding a handle reached the SDK's log.
C5_Witness ==
  /\ last.obj = "TrainLogger"
  /\ last.op = "plot"
  /\ Truthy(last.held)
  /\ \E i \in 1..Len(sdk) : sdk[i].fn = "log"

C6_Step ==
  LET a == last'.arg
  IN  (/\ last'.op = "__init__"
       /\ Truthy(a.log_yaml_path)
       /\ a.sweep_id # PyNone
       /\ a.sweep_config = PyNone
       /\ \E i \in 1..Len(sdk') :
            sdk'[i].fn = "Api.sweep" /\ sdk'[i].ret.t = "error") =>
        /\ last'.outcome = "ok"
        /\ tl'.alive
        /\ tl'.sweep_config = PyNone
        /\ tl'.sweep_id = a.sweep_id
        /\ IF a.config = PyNone
           THEN yamlFile' = yamlFile
           ELSE /\ IsDict(SafeLoad(yamlFile'))
                /\ ~HasKey(SafeLoad(yamlFile'), PyStr("sweep_config"))
                /\ HasKey(SafeLoad(yamlFile'), PyStr("config"))

\* C6: when the constructor has log_yaml_path and sweep_id, no sweep_config,
\* and the SDK fails to give the sweep's configuration, the constructor
\* returns, sweep_config is None, sweep_id is the caller's, and the YAML file
\* has no sweep_config entry (it is not written when config is None as well).
C6_FetchFailureIsCaught == [][C6_Step]_vars

\* C6: the fetch failed and the file was written with the config alone.
C6_Witness ==
  /\ last.op = "__init__"
  /\ last.outcome = "ok"
  /\ sdk # <<>>
  /\ sdk[1].ret.t = "error"
  /\ last.arg.config # PyNone
  /\ tl.sweep_config = PyNone
  /\ tl.sweep_id = PyStr("sw1")
  /\ Keys(SafeLoad(yamlFile)) = <<PyStr("config")>>

C7_Step ==
  /\ (tl.alive /\ tl.sweep_id # PyNone) => tl'.sweep_id = tl.sweep_id
  /\ \A i \in 1..Len(sdk') :
       sdk'[i].fn \in {"sweep", "cli.sweep"} =>
         /\ last'.op = "start"
         /\ tl.sweep_id = PyNone
         /\ tl.sweep_config # PyNone
         /\ last'.outcome = "ok" =>
              (tl'.sweep_id # PyNone /\ tl'.sweep_id = sdk'[i].ret)
  /\ (/\ last'.obj = "TrainLogger"
      /\ last'.op = "start"
      /\ tl.sweep_id = PyNone
      /\ tl.sweep_config # PyNone
      /\ ~IsDict(tl.sweep_config)
      /\ ~(tl.sweep_config.t = "str" /\ tl.sweep_config.s \in ExistingFiles)) =>
       /\ last'.outcome = "ValueError"
       /\ tl'.sweep_id = PyNone
       /\ \A i \in 1..Len(sdk') : sdk'[i].fn \notin {"sweep", "cli.sweep"}

\* C7: a sweep_id the logger has (the caller's, or one the SDK gave) is never
\* changed by start, log, plot or finish; start() asks the SDK to create a
\* sweep only when sweep_id is None and sweep_config is not None, and when it
\* then returns sweep_id is the identifier the SDK answered; start() with no
\* sweep_id and a sweep_config that is neither a dict nor the path of an
\* existing file raises ValueError and leaves sweep_id None.
C7_SweepIdCallerOrSdk == [][C7_Step]_vars

\* C7: start() created a sweep and took the SDK's identifier.
C7_Witness ==
  /\ last.obj = "TrainLogger"
  /\ last.op = "start"
  /\ last.outcome = "ok"
  /\ \E i \in 1..Len(sdk) : sdk[i].fn = "sweep"
  /\ tl.sweep_id = PyStr("sw2")

C8_Step ==
  LET a == last'.arg
      fetchedOk == sdk' # <<>> /\ sdk'[1].ret.t # "error"
      sc == IF a.sweep_config # PyNone THEN a.sweep_config
            ELSE IF fetchedOk THEN sdk'[1].ret ELSE PyNone
      expected ==
        PyDict((IF a.config # PyNone
                THEN <<Entry(PyStr("config"), a.config)>> ELSE <<>>)
               \o (IF sc # PyNone
                   THEN <<Entry(PyStr("sweep_config"), sc)>> ELSE <<>>))
  IN  (last'.op = "__init__" /\ last'.outcome = "ok") =>
        /\ IF Truthy(a.log_yaml_path) /\ (a.config # PyNone \/ sc # PyNone)
           THEN yamlFile' \notin {Absent, EmptyFile} /\ SafeLoad(yamlFile') = expected
           ELSE yamlFile' = yamlFile
        /\ a.sweep_config # PyNone => sdk' = <<>>
        /\ fetchedOk => (a.sweep_id # PyNone /\ Truthy(a.log_yaml_path))

\* C8: a constructor call that passes validation writes the file at
\* log_yaml_path exactly when log_yaml_path is a non-empty path and config or
\* a sweep configuration (the given one, else the one fetched for the given
\* sweep_id) is there; the file then reloads to the mapping of 'config' to
\* config (when not None) and 'sweep_config' to the sweep configuration (when
\* there), and nothing else.  The SDK is not asked when sweep_config is given.
C8_InitSnapshot == [][C8_Step]_vars

\* C8: the file holds the config and the fetched sweep configuration.
C8_Witness ==
  /\ last.op = "__init__"
  /\ last.outcome = "ok"
  /\ last.arg.config # PyNone
  /\ last.arg.sweep_config = PyNone
  /\ sdk # <<>>
  /\ sdk[1].ret.t = "dict"
  /\ Keys(SafeLoad(yamlFile)) = <<PyStr("config"), PyStr("sweep_config")>>
  /\ DictGet(SafeLoad(yamlFile), PyStr("sweep_config")) = sdk[1].ret

C9_Step ==
  /\ (last'.obj = "TrainLogger" /\ last'.op = "finish") =>
       IF Truthy(tl.run)
       THEN /\ sdk' = <<Call("finish", PyNone, PyNone)>>
            /\ tl' = [tl EXCEPT !.run = PyNone]
       ELSE /\ sdk' = <<>>
            /\ tl' = tl
  /\ (last'.obj = "WandbLogger" /\ last'.op = "finish") =>
       IF Truthy(wl.run)
       THEN /\ sdk' = <<Call("finish", PyNone, PyNone)>>
            /\ wl' = [wl EXCEPT !.run = PyNone]
       ELSE /\ sdk' = <<>>
            /\ wl' = wl
  /\ (last.op = "finish" /\ last'.op = "finish" /\ last.obj = last'.obj) =>
       sdk' = <<>>

\* C9: finish() on a wrapper holding a run handle calls the SDK's finish once
\* and sets the handle to None; on a wrapper holding none (before any start,
\* or right after a finish) it makes no SDK call and changes nothing.  Both
\* for TrainLogger and for WandbLogger.
C9_FinishIdempotent == [][C9_Step]_vars

\* C9: a TrainLogger that held a handle finished.
C9_Witness ==
  /\ last.obj = "TrainLogger"
  /\ last.op = "finish"
  /\ Truthy(last.held)
  /\ sdk = <<Call("finish", PyNone, PyNone)>>
  /\ tl.run = PyNone

\* C10: with use_wandb False, start, log and finish make no call into the
\* SDK and the run handle stays None.
C10_DisabledMakesNoSdkCall ==
  (/\ tl.alive
   /\ ~tl.use_wandb
   /\ last.obj = "TrainLogger"
   /\ last.op \in {"start", "log", "finish"}) =>
    /\ sdk = <<>>
    /\ tl.run = PyNone

C11_Step ==
  /\ (last'.obj = "TrainLogger" /\ last'.op \in {"agent", "controller"}) =>
       /\ IF ~tl.use_wandb \/ tl.sweep_id = PyNone
          THEN /\ last'.outcome \in {"RuntimeError: W&B is disabled",
                                     "RuntimeError: sweep_id not found"}
               /\ sdk' = <<>>
          ELSE /\ last'.outcome = "ok"
               /\ sdk' = <<Call(last'.op, tl.sweep_id, PyNone)>>
       /\ tl' = tl
  /\ (/\ last'.obj = "TrainLogger"
      /\ last'.op = "start"
      /\ last'.outcome = "ok"
      /\ tl.use_wandb
      /\ tl.sweep_config # PyNone) => tl'.sweep_id # PyNone
  /\ (tl.alive /\ tl.sweep_id # PyNone) =>
       /\ tl'.sweep_id # PyNone
       /\ last'.outcome # "RuntimeError: sweep_id not found"

\* C11: agent() and controller() raise RuntimeError and make no SDK call when
\* use_wandb is False or sweep_id is None, and otherwise make the one SDK call
\* agent / controller with the current sweep_id.  A start() that returns on a
\* logger with use_wandb and a sweep_config leaves a sweep_id, and a logger
\* that has a sweep_id keeps one and is never refused for lacking it.
C11_SweepCallsNeedSweepId == [][C11_Step]_vars

\* C11: agent() ran the sweep that start() had created from the sweep_config.
C11_Witness ==
  /\ last.obj = "TrainLogger"
  /\ last.op = "agent"
  /\ last.outcome = "ok"
  /\ tl.sweep_config = GridSweep
  /\ sdk = <<Call("agent", PyStr("sw2"), PyNone)>>

\* What load_config_file_if_needed(v) is to give when the file at v holds the
\* text file: v itself, the parser's result, or the exception.
C12_Loaded(v, file) ==
  IF ~(v.t = "str" /\ v.s \in ConfigFiles) THEN v
  ELSE IF v.s \in {"cfg.yaml", "cfg.YML"} THEN SafeLoad(file)
  ELSE IF v.s = "cfg.Json" THEN JsonLoad(file)
  ELSE LoadError("ValueError")

C12_Step ==
  /\ (last'.obj = "visualization" /\ last'.op = "load_config_file_if_needed") =>
       LET v == last'.arg
           want == C12_Loaded(v, last'.file)
       IN  /\ last'.file # Unread <=>
                (v.t = "str" /\ v.s \in {"cfg.yaml", "cfg.YML", "cfg.Json"})
           /\ IF want.t = "error"
              THEN last'.outcome = want.s
              ELSE last'.outcome = "ok" /\ last'.ret = want
  /\ (last'.obj = "visualization" /\ last'.op = "main") =>
       LET raw == last'.arg.raw_dict
           key == PyStr("config")
       IN  IF ~HasKey(raw, key)
           THEN /\ last'.outcome = "ok"
                /\ sdk'[1] = Call("model_class", raw, PyNone)
           ELSE LET want == C12_Loaded(DictGet(raw, key), last'.file)
                IN  IF want.t = "error"
                    THEN last'.outcome = want.s /\ sdk' = <<>>
                    ELSE IF last'.arg.obj /\ IsDict(want)
                    THEN IF DictToObj(want).t = "error"
                         THEN last'.outcome = "TypeError" /\ sdk' = <<>>
                         ELSE /\ last'.outcome = "ok"
                              /\ DictGet(sdk'[1].arg, key).t = "obj"
                              /\ sdk'[1] = Call("model_class",
                                                DictSet(raw, key, DictToObj(want)),
                                                PyNone)
                    ELSE /\ last'.outcome = "ok"
                         /\ sdk'[1] = Call("model_class", DictSet(raw, key, want),
                                           PyNone)

\* C12: load_config_file_if_needed(v) returns v itself unless v is a str
\* naming an existing file; for a file whose lower-cased extension is .yml,
\* .yaml or .json it opens the file and gives what the YAML or JSON parser
\* gives for its text, and for any other extension it raises ValueError
\* without opening the file.  The model constructor receives raw_dict with the
\* loaded value under "config", replaced by its dot-accessible object exactly
\* when --obj is given and the loaded value is a dict.
C12_ConfigLoadedByExtension == [][C12_Step]_vars

\* C12: a run with --obj read {"lr": 1} from cfg.YML and built the model from
\* the object made of it.
C12_Witness ==
  /\ last.obj = "visualization"
  /\ last.op = "main"
  /\ last.outcome = "ok"
  /\ last.arg.obj
  /\ HasKey(last.arg.raw_dict, PyStr("config"))
  /\ DictGet(last.arg.raw_dict, PyStr("config")) = PyStr("cfg.YML")
  /\ last.file # Unread
  /\ DictGet(sdk[1].arg, PyStr("config")) =
       Val("obj", "", <<Entry(PyStr("lr"), PyInt("1"))>>)
====
